---- MODULE Spec2Model ----
(***************************************************************************)
(* Model of the signal derivation and optimisation engine of secrex:       *)
(*   frame.py               Frame (moving averages, buffers, zones,        *)
(*                          positions, recommendations)                    *)
(*   objective_function.py  ObjectiveFunction (gains, maxima, statistics)  *)
(*   downloader.py          Downloader (date window, duplicates, NAs)      *)
(*   system_utilities.py    cache (memoisation of a wrapped function)      *)
(*                                                                         *)
(* Prices are positive integers.  The floating point columns of the code   *)
(* (moving averages, buffers, gains) are modelled by exact rationals       *)
(* <<numerator, denominator>> with a positive denominator; the missing     *)
(* value NaN of a numeric column is <<0, 0>> and the missing value of a    *)
(* text column is the string "NaN".  Row t of the code is index t + 1.     *)
(* A standard deviation is kept as its square.  pc names the call about to *)
(* run, or the exception or terminate() message that ended the run.        *)
(* An attribute never assigned is None; the two signal tables of the       *)
(* crossover analysis are records [rows |-> ...], so that an empty table   *)
(* differs from a missing one.  In SpecDL time_series is the table of the  *)
(* Downloader, a sequence of dated rows, and request holds its dates.      *)
(* caller_df is the table handed to Frame.__init__, which _time_series    *)
(* aliases until the first join; cache is wrapper.cache, calls counts the  *)
(* invocations of the wrapped function and returned is the last outcome.   *)
(*                                                                         *)
(*   Spec     Frame.__init__ (mad off), then ObjectiveFunction.__init__    *)
(*   SpecMAD  Frame.__init__ with any setting of the mad section           *)
(*   SpecRec  _build_recommendation on any column of positions             *)
(*   SpecOF   ObjectiveFunction.__init__ on any recommendation column      *)
(*   SpecMax  _build_maxima, _extract_max, _cleanup on any table of gains  *)
(*   SpecDL   Downloader.__init__ from _apply_date_window on, on any table *)
(*   SpecCleanup  Frame._cleanup on a series holding any zone columns      *)
(*   SpecCache    calls of a function wrapped by cache                     *)
(***************************************************************************)
EXTENDS Integers, Sequences, FiniteSets, TLC

VARIABLES pc, config, time_series, per, o_function, max_df, of_info, warnings,
          mad_buy_signals, mad_sell_signals, request,
          caller_df, cache, calls, returned

vars == <<pc, config, time_series, per, o_function, max_df, of_info, warnings,
          mad_buy_signals, mad_sell_signals, request,
          caller_df, cache, calls, returned>>

(* ---------------------------------------------------------------- bounds *)
MaxRows == 5
MaxPrice == 2
MaxPeriod == 3
BufferDen == 10
MaxBufferNum == 1
MaxGainRows == 5
MaxGain == 5
MaxLoss == 1
MaxWindow == 3
MaxRawRows == 3
MaxDate == 2
MaxCell == 1
MaxCalls == 2

(* ------------------------------------------------- constants of frame.py *)
ZONES == <<"High", "Low", "Mid">>
POSITIONS == <<"Long", "Short", "Side">>
RECOMMENDATIONS == <<"B", "S", "">>
TextNaN == "NaN"

(* ------------------------------------------------------------- rationals *)
NaN == <<0, 0>>
IsNaN(a) == a[2] = 0
Rat(n, d) == <<n, d>>
REq(a, b) == a[1] * b[2] = b[1] * a[2]
RLe(a, b) == a[1] * b[2] <= b[1] * a[2]
RLt(a, b) == a[1] * b[2] < b[1] * a[2]
RAdd(a, b) == <<a[1] * b[2] + b[1] * a[2], a[2] * b[2]>>
RSub(a, b) == <<a[1] * b[2] - b[1] * a[2], a[2] * b[2]>>
RMul(a, b) == <<a[1] * b[1], a[2] * b[2]>>
\* comparisons of numpy and pandas: any comparison with NaN is False
FLe(a, b) == ~IsNaN(a) /\ ~IsNaN(b) /\ RLe(a, b)
FGt(a, b) == ~IsNaN(a) /\ ~IsNaN(b) /\ RLt(b, a)
FEq(a, b) == ~IsNaN(a) /\ ~IsNaN(b) /\ REq(a, b)
\* arithmetic of numpy: a missing operand gives a missing result
FSub(a, b) == IF IsNaN(a) \/ IsNaN(b) THEN NaN ELSE RSub(a, b)

Min(a, b) == IF a <= b THEN a ELSE b

RECURSIVE SumSeq(_)
SumSeq(s) == IF Len(s) = 0 THEN 0 ELSE s[1] + SumSeq(Tail(s))

(* ------------------------------------------------ pandas / numpy helpers *)
\* Series.ewm(span, adjust=False).mean(): y[0] = x[0],
\* y[t] = a x[t] + (1 - a) y[t-1] with a = 2 / (span + 1)
RECURSIVE ewm_mean(_, _)
ewm_mean(x, span) ==
    IF Len(x) = 0 THEN <<>>
    ELSE IF Len(x) = 1 THEN <<Rat(x[1], 1)>>
    ELSE LET prev == ewm_mean(SubSeq(x, 1, Len(x) - 1), span)
             y == prev[Len(prev)]
         IN  Append(prev, Rat(2 * x[Len(x)] * y[2] + (span - 1) * y[1],
                              (span + 1) * y[2]))

\* Series.rolling(window, min_periods).mean()
rolling_mean(x, window, min_periods) ==
    [t \in 1..Len(x) |->
        LET cnt == Min(window, t)
        IN  IF cnt < min_periods THEN NaN
            ELSE Rat(SumSeq(SubSeq(x, t - cnt + 1, t)), cnt)]

\* the last condition that holds on a row decides its value
np_select_last(conditions, options, default, n) ==
    [t \in 1..n |->
        IF \E i \in 1..Len(conditions) : conditions[i][t]
        THEN options[CHOOSE i \in 1..Len(conditions) :
                        /\ conditions[i][t]
                        /\ \A j \in (i + 1)..Len(conditions) : ~conditions[j][t]]
        ELSE default]

\* np.select(conditions, options, default) over n rows: the first condition
\* that holds on a row decides its value
np_select(conditions, options, default, n) ==
    [t \in 1..n |->
        IF \E i \in 1..Len(conditions) : conditions[i][t]
        THEN options[CHOOSE i \in 1..Len(conditions) :
                        /\ conditions[i][t]
                        /\ \A j \in 1..(i - 1) : ~conditions[j][t]]
        ELSE default]

\* shift forgotten: the column is left as scanned
shift_none(s) == s

\* Series.shift(1): every value moves one row down, row 0 becomes missing
shift(s) == IF Len(s) = 0 THEN <<>> ELSE <<TextNaN>> \o SubSeq(s, 1, Len(s) - 1)

\* DataFrame.join of one new column named col for period p
join(ts, col, p, values) == [ts EXCEPT ![col] = (p :> values) @@ @]

HasColumn(ts, col, p) == p \in DOMAIN ts[col]

(* ----------------------------------------------------- Frame, per period *)
NRows == Len(time_series.adj_close)

_build_moving_average(ts, ma_type, p) ==
    LET ema == IF ma_type \in {"exponential", "both"}
               THEN ewm_mean(ts.adj_close, p) ELSE <<>>
    IN  IF ma_type \in {"simple", "both"}
        THEN rolling_mean(ts.adj_close, p, 1)
        ELSE ema

\* the buffer is config.buffers.buffer / BufferDen
_build_buffers_plus(ts, p, buffer) ==
    [t \in 1..Len(ts.adj_close) |->
        RMul(Rat(BufferDen + buffer, BufferDen), ts.EMA[p][t])]

_build_buffers_minus(ts, p, buffer) ==
    [t \in 1..Len(ts.adj_close) |->
        RMul(Rat(BufferDen - buffer, BufferDen), ts.EMA[p][t])]

_build_zone(ts, p) ==
    LET n == Len(ts.adj_close)
        conditions ==
            << [t \in 1..n |-> RLe(ts.EMAplus[p][t], Rat(ts.adj_close[t], 1))],
               [t \in 1..n |-> RLe(Rat(ts.adj_close[t], 1), ts.EMAminus[p][t])] >>
        options == <<ZONES[1], ZONES[2]>>
    IN  np_select(conditions, options, ZONES[3], n)

\* row 0 not forced to Side: it keeps the position of its zone
RECURSIVE forward_fill_row0(_)
forward_fill_row0(sel) ==
    IF Len(sel) = 1 THEN <<IF sel[1] = "" THEN POSITIONS[3] ELSE sel[1]>>
    ELSE LET prev == forward_fill_row0(SubSeq(sel, 1, Len(sel) - 1))
         IN  Append(prev, IF sel[Len(sel)] = "" THEN prev[Len(prev)]
                          ELSE sel[Len(sel)])

\* an empty row falls back to Side instead of the row before it
forward_fill_side(sel) ==
    [t \in 1..Len(sel) |-> IF t = 1 \/ sel[t] = "" THEN POSITIONS[3] ELSE sel[t]]

\* the loop of _build_position: row 0 is Side, an empty row takes the value
\* of the row before it (already filled)
RECURSIVE forward_fill(_)
forward_fill(sel) ==
    IF Len(sel) = 1 THEN <<POSITIONS[3]>>
    ELSE LET prev == forward_fill(SubSeq(sel, 1, Len(sel) - 1))
         IN  Append(prev, IF sel[Len(sel)] = "" THEN prev[Len(prev)]
                          ELSE sel[Len(sel)])

\* the two options exchanged: High gives Side and Low gives the position
position_options_swapped(strategy) ==
    IF strategy = "long" THEN <<POSITIONS[3], POSITIONS[1]>>
    ELSE <<POSITIONS[3], POSITIONS[2]>>

\* Low gives Short under every strategy
position_options_short(strategy) == <<POSITIONS[1], POSITIONS[2]>>

position_options(strategy) ==
    IF strategy = "long" THEN <<POSITIONS[1], POSITIONS[3]>>
    ELSE <<POSITIONS[2], POSITIONS[3]>>

_build_position(ts, p, strategy) ==
    LET n == Len(ts.adj_close)
        conditions == << [t \in 1..n |-> ts.Z[p][t] = ZONES[1]],
                         [t \in 1..n |-> ts.Z[p][t] = ZONES[2]] >>
    IN  forward_fill(np_select(conditions, position_options(strategy), "", n))

\* Long -> Side left as Hold, Short -> Side entry missing
long_pos_changes_wrong ==
    << <<POSITIONS[3], POSITIONS[1], RECOMMENDATIONS[1]>>,
       <<POSITIONS[3], POSITIONS[2], RECOMMENDATIONS[2]>>,
       <<POSITIONS[3], POSITIONS[3], RECOMMENDATIONS[3]>>,
       <<POSITIONS[2], POSITIONS[1], RECOMMENDATIONS[1]>>,
       <<POSITIONS[2], POSITIONS[2], RECOMMENDATIONS[3]>>,
       <<POSITIONS[1], POSITIONS[1], RECOMMENDATIONS[3]>>,
       <<POSITIONS[1], POSITIONS[2], RECOMMENDATIONS[2]>>,
       <<POSITIONS[1], POSITIONS[3], RECOMMENDATIONS[3]>> >>

long_pos_changes ==
    << <<POSITIONS[3], POSITIONS[1], RECOMMENDATIONS[1]>>,
       <<POSITIONS[3], POSITIONS[2], RECOMMENDATIONS[2]>>,
       <<POSITIONS[3], POSITIONS[3], RECOMMENDATIONS[3]>>,
       <<POSITIONS[2], POSITIONS[1], RECOMMENDATIONS[1]>>,
       <<POSITIONS[2], POSITIONS[2], RECOMMENDATIONS[3]>>,
       <<POSITIONS[2], POSITIONS[3], RECOMMENDATIONS[3]>>,
       <<POSITIONS[1], POSITIONS[1], RECOMMENDATIONS[3]>>,
       <<POSITIONS[1], POSITIONS[2], RECOMMENDATIONS[2]>>,
       <<POSITIONS[1], POSITIONS[3], RECOMMENDATIONS[2]>> >>

\* the for/else over long_pos_changes: the first matching entry, or the
\* "logic error" when no entry matches
LogicError == "ValueError"
match_pos_change(previous_pos, current_pos) ==
    LET hits == {i \in 1..Len(long_pos_changes) :
                    /\ long_pos_changes[i][1] = previous_pos
                    /\ long_pos_changes[i][2] = current_pos}
    IN  IF hits = {} THEN LogicError
        ELSE long_pos_changes[CHOOSE i \in hits : \A j \in hits : i <= j][3]

\* the recommendation column before its shift
scan_recommendation(pos) ==
    [t \in 1..Len(pos) |->
        IF t = 1 THEN RECOMMENDATIONS[3]
        ELSE match_pos_change(pos[t - 1], pos[t])]

_build_recommendation(ts, p) == shift(scan_recommendation(ts.Pos[p]))

(* ------------------------------------------------------ Frame: the state *)
SeqsUpTo(S, n) == UNION {[1..k -> S] : k \in 1..n}

PeriodRanges ==
    {r \in [min : 1..MaxPeriod, max : 1..MaxPeriod] : r.min <= r.max}

\* the mad section of the configuration: compute, short_period, long_period
MadConfigs ==
    [compute : BOOLEAN, short_period : 1..MaxWindow, long_period : 1..MaxWindow]

MadOff == [compute |-> FALSE, short_period |-> 1, long_period |-> 2]

Configs ==
    [period : PeriodRanges,
     buffers : [fixed : BOOLEAN, buffer : 0..MaxBufferNum],
     strategy : {"long", "short"},
     ema : BOOLEAN,
     sma : BOOLEAN,
     mad : {MadOff}]

NoColumns == <<>>

RawFrame(prices) ==
    [adj_close |-> prices,
     EMA |-> NoColumns, EMAplus |-> NoColumns, EMAminus |-> NoColumns,
     Z |-> NoColumns, Pos |-> NoColumns, R |-> NoColumns,
     SMA |-> NoColumns, DIFF |-> NoColumns]

None == <<>>

\* get_of_info() before _extract_max has run: every entry is None
NoInfo == None

Init ==
    /\ pc = "Frame.__init__"
    /\ config \in Configs
    /\ time_series \in {RawFrame(x) : x \in SeqsUpTo(1..MaxPrice, MaxRows)}
    /\ per = 0
    /\ o_function = None
    /\ max_df = None
    /\ of_info = NoInfo
    /\ warnings = 0
    /\ mad_buy_signals = None
    /\ mad_sell_signals = None
    /\ request = None
    /\ caller_df = time_series
    /\ cache = None
    /\ calls = None
    /\ returned = None

(* ------------------------------------------- Frame: _build_derived_data *)
\* position in "for per in range(min, max + 1)": the first call of an
\* iteration, and what follows the last call of iteration p
\* (with neither moving average requested the body of the loop is empty)
AfterLoop == IF config.mad.compute THEN "_build_MAD" ELSE "Frame._cleanup"

LoopEntry ==
    IF config.ema THEN "_build_moving_average"
    ELSE IF config.sma THEN "_build_moving_average_sma"
    ELSE AfterLoop

\* the value of the loop variable when the first call of the loop is made
FirstPeriod ==
    IF config.ema \/ config.sma THEN config.period.min ELSE config.period.max

AfterIteration(p) ==
    IF p + 1 <= config.period.max
    THEN /\ per' = p + 1
         /\ pc' = LoopEntry
    ELSE /\ per' = p
         /\ pc' = AfterLoop

\* the strategy is not asserted: construction goes on with any strategy
FrameInit_unchecked ==
    /\ pc = "Frame.__init__"
    /\ per' = FirstPeriod
    /\ pc' = LoopEntry
    /\ UNCHANGED <<config, time_series, o_function, max_df, of_info, warnings,
                   mad_buy_signals, mad_sell_signals, request,
                 caller_df, cache, calls, returned>>

FrameInit ==
    /\ pc = "Frame.__init__"
    /\ IF config.strategy = "long"
       THEN /\ per' = FirstPeriod
            /\ pc' = LoopEntry
       ELSE /\ per' = per
            /\ pc' = "AssertionError"
    /\ UNCHANGED <<config, time_series, o_function, max_df, of_info, warnings,
                 mad_buy_signals, mad_sell_signals, request,
                 caller_df, cache, calls, returned>>

\* the average is written into the caller's table
BuildMovingAverage_inplace ==
    /\ pc = "_build_moving_average"
    /\ time_series' = join(time_series, "EMA", per,
                           _build_moving_average(time_series, "exponential", per))
    /\ caller_df' = time_series'
    /\ pc' = "_build_buffers"
    /\ UNCHANGED <<config, per, o_function, max_df, of_info, warnings,
                   mad_buy_signals, mad_sell_signals, request,
                   cache, calls, returned>>

BuildMovingAverage ==
    /\ pc = "_build_moving_average"
    /\ time_series' = join(time_series, "EMA", per,
                           _build_moving_average(time_series, "exponential", per))
    /\ pc' = "_build_buffers"
    /\ UNCHANGED <<config, per, o_function, max_df, of_info, warnings,
                 mad_buy_signals, mad_sell_signals, request,
                 caller_df, cache, calls, returned>>

\* the buffer policy is not looked at: the fixed buffer is always applied
BuildBuffers_default ==
    /\ pc = "_build_buffers"
    /\ time_series' =
          join(join(time_series, "EMAplus", per,
                    _build_buffers_plus(time_series, per, config.buffers.buffer)),
               "EMAminus", per,
               _build_buffers_minus(time_series, per, config.buffers.buffer))
    /\ pc' = "_build_zone"
    /\ UNCHANGED <<config, per, o_function, max_df, of_info, warnings,
                   mad_buy_signals, mad_sell_signals, request,
                 caller_df, cache, calls, returned>>

BuildBuffers ==
    /\ pc = "_build_buffers"
    /\ IF config.buffers.fixed
       THEN /\ time_series' =
                join(join(time_series, "EMAplus", per,
                          _build_buffers_plus(time_series, per, config.buffers.buffer)),
                     "EMAminus", per,
                     _build_buffers_minus(time_series, per, config.buffers.buffer))
            /\ pc' = "_build_zone"
       ELSE /\ time_series' = time_series
            /\ pc' = "terminate: 3D OF not implemented"
    /\ UNCHANGED <<config, per, o_function, max_df, of_info, warnings,
                 mad_buy_signals, mad_sell_signals, request,
                 caller_df, cache, calls, returned>>

\* the zone of every period is read from the averages of the first period
BuildZone_first ==
    /\ pc = "_build_zone"
    /\ time_series' = join(time_series, "Z", per,
                           _build_zone(time_series, config.period.min))
    /\ pc' = "_build_position"
    /\ UNCHANGED <<config, per, o_function, max_df, of_info, warnings,
                   mad_buy_signals, mad_sell_signals, request,
                 caller_df, cache, calls, returned>>

BuildZone ==
    /\ pc = "_build_zone"
    /\ time_series' = join(time_series, "Z", per, _build_zone(time_series, per))
    /\ pc' = "_build_position"
    /\ UNCHANGED <<config, per, o_function, max_df, of_info, warnings,
                 mad_buy_signals, mad_sell_signals, request,
                 caller_df, cache, calls, returned>>

BuildPosition ==
    /\ pc = "_build_position"
    /\ IF config.strategy \in {"long", "short"}
       THEN /\ time_series' = join(time_series, "Pos", per,
                                   _build_position(time_series, per, config.strategy))
            /\ pc' = "_build_recommendation"
       ELSE /\ time_series' = time_series
            /\ pc' = "ValueError"
    /\ UNCHANGED <<config, per, o_function, max_df, of_info, warnings,
                 mad_buy_signals, mad_sell_signals, request,
                 caller_df, cache, calls, returned>>

BuildRecommendation ==
    /\ pc = "_build_recommendation"
    /\ IF \E t \in 1..NRows : scan_recommendation(time_series.Pos[per])[t] = LogicError
       THEN /\ time_series' = time_series
            /\ pc' = "ValueError"
            /\ per' = per
       ELSE /\ time_series' = join(time_series, "R", per,
                                   _build_recommendation(time_series, per))
            /\ IF config.sma
               THEN /\ pc' = "_build_moving_average_sma"
                    /\ per' = per
               ELSE AfterIteration(per)
    /\ UNCHANGED <<config, o_function, max_df, of_info, warnings,
                 mad_buy_signals, mad_sell_signals, request,
                 caller_df, cache, calls, returned>>

BuildSimpleMovingAverage ==
    /\ pc = "_build_moving_average_sma"
    /\ time_series' = join(time_series, "SMA", per,
                           _build_moving_average(time_series, "simple", per))
    /\ pc' = "_build_ma_differential"
    /\ UNCHANGED <<config, per, o_function, max_df, of_info, warnings,
                 mad_buy_signals, mad_sell_signals, request,
                 caller_df, cache, calls, returned>>

_build_ma_differential(ts, p) ==
    [t \in 1..Len(ts.adj_close) |-> RSub(ts.EMA[p][t], ts.SMA[p][t])]

BuildMaDifferential ==
    /\ pc = "_build_ma_differential"
    /\ IF ~HasColumn(time_series, "EMA", per) \/ ~HasColumn(time_series, "SMA", per)
       THEN /\ time_series' = time_series
            /\ pc' = "KeyError"
            /\ per' = per
       ELSE /\ time_series' = join(time_series, "DIFF", per,
                                   _build_ma_differential(time_series, per))
            /\ AfterIteration(per)
    /\ UNCHANGED <<config, o_function, max_df, of_info, warnings,
                 mad_buy_signals, mad_sell_signals, request,
                 caller_df, cache, calls, returned>>

(* ------------------------------------------------------ Frame: _build_MAD *)
\* the size of the change, whatever its direction
diff_abs(s) ==
    [t \in 1..Len(s) |->
        IF t = 1 THEN NaN
        ELSE Rat(IF s[t] >= s[t - 1] THEN s[t] - s[t - 1] ELSE s[t - 1] - s[t], 1)]

\* Series.diff(): the value minus the value of the row before, row 0 missing
diff(s) == [t \in 1..Len(s) |-> IF t = 1 THEN NaN ELSE Rat(s[t] - s[t - 1], 1)]

\* the table ts up to the selection of the signals, one record per row; the
\* windows are used as configured, whatever their order.  The back-test
\* columns and the plot that follow read these columns and are not kept by
\* Frame.__init__
_build_MAD(adj_close, short_window, long_window) ==
    LET n == Len(adj_close)
        SHORT_MAD == rolling_mean(adj_close, short_window, short_window)
        LONG_MAD == rolling_mean(adj_close, long_window, long_window)
        MAD_Signal == [t \in 1..n |-> IF FGt(SHORT_MAD[t], LONG_MAD[t]) THEN 1 ELSE 0]
        MAD_Position == diff(MAD_Signal)
    IN  [t \in 1..n |->
            [row |-> t,
             SHORT_MAD |-> SHORT_MAD[t],
             LONG_MAD |-> LONG_MAD[t],
             MAD |-> FSub(SHORT_MAD[t], LONG_MAD[t]),
             MAD_Signal |-> MAD_Signal[t],
             MAD_Position |-> MAD_Position[t]]]

\* a table kept by the Frame, as opposed to an attribute never assigned
DataFrame(rows) == [rows |-> rows]

BuildMAD ==
    /\ pc = "_build_MAD"
    /\ LET ts == _build_MAD(time_series.adj_close,
                            config.mad.short_period, config.mad.long_period)
           IsBuy(r) == FEq(r.MAD_Position, Rat(1, 1))
           IsSell(r) == FEq(r.MAD_Position, Rat(0 - 1, 1))
       IN  /\ mad_buy_signals' = DataFrame(SelectSeq(ts, IsBuy))
           /\ mad_sell_signals' = DataFrame(SelectSeq(ts, IsSell))
    /\ pc' = "Frame._cleanup"
    /\ UNCHANGED <<config, time_series, per, o_function, max_df, of_info, warnings,
                   request,
                 caller_df, cache, calls, returned>>

(* ------------------------------------------------------- Frame: _cleanup *)
PeriodRange == config.period.min..config.period.max

\* nothing is dropped
drop_columns_none(ts, col, periods) == ts

\* every zone column of the series is dropped, in the range or not
drop_columns_all(ts, col, periods) == [ts EXCEPT ![col] = NoColumns]

drop_columns(ts, col, periods) ==
    [ts EXCEPT ![col] = [p \in (DOMAIN @) \ periods |-> @[p]]]

FrameCleanup ==
    /\ pc = "Frame._cleanup"
    /\ LET existing_cols == PeriodRange \cap DOMAIN time_series.Z
       IN  IF existing_cols # {}
           THEN /\ time_series' = drop_columns(time_series, "Z", existing_cols)
                /\ warnings' = warnings
           ELSE /\ time_series' = time_series
                /\ warnings' = warnings + 1
    /\ caller_df' = IF config.ema \/ config.sma THEN caller_df ELSE time_series'
    /\ pc' = "_build_objective_function"
    /\ UNCHANGED <<config, per, o_function, max_df, of_info,
                 mad_buy_signals, mad_sell_signals, request,
                 cache, calls, returned>>

(* --------------------------------- ObjectiveFunction: the gain of a period *)
RowsWhere(column, value) == {t \in 1..Len(column) : column[t] = value}

RECURSIVE SumOver(_, _)
SumOver(x, rows) ==
    IF rows = {} THEN 0
    ELSE LET t == CHOOSE r \in rows : TRUE
         IN  x[t] + SumOver(x, rows \ {t})

\* df.groupby(col).size()[value]: the number of rows holding value; the
\* lookup raises KeyError when no row holds it
group_size(column, value) == Cardinality(RowsWhere(column, value))

\* the comparison of the two group sizes raises when a group is absent
\* (the except clause of _sum_tx then terminates the run)
_sum_tx_raises(column) ==
    group_size(column, "B") = 0 \/ group_size(column, "S") = 0

\* <<buys, sells>> as returned when nothing raises
_sum_tx(df, column) ==
    LET buys == SumOver(df.adj_close, RowsWhere(column, "B"))
        sells == SumOver(df.adj_close, RowsWhere(column, "S"))
        last == df.adj_close[Len(df.adj_close)]
        nB == group_size(column, "B")
        nS == group_size(column, "S")
    IN  IF nB = nS + 1 THEN <<buys, sells + last>>
        ELSE IF nB + 1 = nS THEN <<buys + last, sells>>
        ELSE <<buys, sells>>

\* .iloc[-1] instead of .iloc[0]: the close of the latest Buy row
initial_buy_last(df, column) ==
    df.adj_close[CHOOSE t \in RowsWhere(column, "B") :
                    \A u \in RowsWhere(column, "B") : t >= u]

\* .iloc[0] of the Buy rows: the close of the earliest one
initial_buy(df, column) ==
    df.adj_close[CHOOSE t \in RowsWhere(column, "B") :
                    \A u \in RowsWhere(column, "B") : t <= u]

\* one iteration of the loop of _build_objective_function raises when the
\* column is absent (KeyError), holds no Buy (IndexError) or _sum_tx fails
of_row_raises(df, p) ==
    \/ ~HasColumn(df, "R", p)
    \/ RowsWhere(df.R[p], "B") = {}
    \/ _sum_tx_raises(df.R[p])

\* the row [period, gains] appended for period p
of_row(df, p) ==
    LET tx == _sum_tx(df, df.R[p])
    IN  [period |-> p, gains |-> Rat(tx[2] - tx[1], initial_buy(df, df.R[p]))]

Raising(df, period) == {p \in period.min..period.max : of_row_raises(df, p)}

\* the first period of the loop that raises
FirstRaising(df, period) ==
    CHOOSE p \in Raising(df, period) : \A q \in Raising(df, period) : p <= q

_build_objective_function(df, period) ==
    [i \in 1..(period.max - period.min + 1) |-> of_row(df, period.min + i - 1)]

\* a period that raises is given the gain 0 and the loop goes on
BuildObjectiveFunction_zero ==
    /\ pc = "_build_objective_function"
    /\ o_function' =
          [i \in 1..(config.period.max - config.period.min + 1) |->
              IF of_row_raises(time_series, config.period.min + i - 1)
              THEN [period |-> config.period.min + i - 1, gains |-> Rat(0, 1)]
              ELSE of_row(time_series, config.period.min + i - 1)]
    /\ per' = config.period.max
    /\ pc' = "_build_maxima"
    /\ UNCHANGED <<config, time_series, max_df, of_info, warnings,
                 mad_buy_signals, mad_sell_signals, request,
                 caller_df, cache, calls, returned>>

\* per is the loop variable: the period that raised, or the last period
BuildObjectiveFunction ==
    /\ pc = "_build_objective_function"
    /\ IF Raising(time_series, config.period) # {}
       THEN /\ o_function' = o_function
            /\ per' = FirstRaising(time_series, config.period)
            /\ pc' = "terminate: Failed to build objective function"
       ELSE /\ o_function' = _build_objective_function(time_series, config.period)
            /\ per' = config.period.max
            /\ pc' = "_build_maxima"
    /\ UNCHANGED <<config, time_series, max_df, of_info, warnings,
                 mad_buy_signals, mad_sell_signals, request,
                 caller_df, cache, calls, returned>>

(* ------------------------------------------- ObjectiveFunction: the maxima *)
\* Series.shift(k) of a numeric column: the value k rows before, NaN outside
shift_num(s, k) ==
    [i \in 1..Len(s) |-> IF (i - k) \in 1..Len(s) THEN s[i - k] ELSE NaN]

\* < in place of <=: a gain equal to a neighbour is not a maximum
_build_maxima_strict(of) ==
    LET gains_col == [i \in 1..Len(of) |-> of[i].gains]
        before == shift_num(gains_col, 1)
        after == shift_num(gains_col, -1)
    IN  [i \in 1..Len(of) |->
            [period |-> of[i].period,
             gains |-> of[i].gains,
             max |-> IF FGt(gains_col[i], before[i]) /\ FGt(gains_col[i], after[i])
                     THEN gains_col[i] ELSE NaN]]

\* the max column: the gain where both shifted comparisons hold, NaN elsewhere
_build_maxima(of) ==
    LET gains_col == [i \in 1..Len(of) |-> of[i].gains]
        before == shift_num(gains_col, 1)
        after == shift_num(gains_col, -1)
    IN  [i \in 1..Len(of) |->
            [period |-> of[i].period,
             gains |-> of[i].gains,
             max |-> IF FLe(before[i], gains_col[i]) /\ FLe(after[i], gains_col[i])
                     THEN gains_col[i] ELSE NaN]]

BuildMaxima ==
    /\ pc = "_build_maxima"
    /\ o_function' = _build_maxima(o_function)
    /\ pc' = "_extract_max"
    /\ UNCHANGED <<config, time_series, per, max_df, of_info, warnings,
                 mad_buy_signals, mad_sell_signals, request,
                 caller_df, cache, calls, returned>>

RECURSIVE RSumSeq(_)
RSumSeq(s) == IF Len(s) = 0 THEN Rat(0, 1) ELSE RAdd(s[1], RSumSeq(Tail(s)))

\* Series.std() (ddof = 1), kept as its square: NaN for fewer than two values,
\* else (n sum(x^2) - sum(x)^2) / (n (n - 1))
std_squared(x) ==
    LET n == Len(x)
        sum == RSumSeq(x)
        sumsq == RSumSeq([i \in 1..n |-> RMul(x[i], x[i])])
    IN  IF n < 2 THEN NaN
        ELSE RMul(RSub(RMul(Rat(n, 1), sumsq), RMul(sum, sum)), Rat(1, n * (n - 1)))

fillna(x, value) == [i \in 1..Len(x) |-> IF IsNaN(x[i]) THEN value ELSE x[i]]

\* Series.astype(bool).sum(): the number of non-zero values
count_nonzero(x) == Cardinality({i \in 1..Len(x) : x[i][1] # 0})

\* Series.idxmax(): the first row holding the largest value
idxmax(x) ==
    CHOOSE i \in 1..Len(x) :
        /\ \A j \in 1..Len(x) : RLe(x[j], x[i])
        /\ \A j \in 1..(i - 1) : RLt(x[j], x[i])

\* >= in place of >: a maximum exactly one deviation below is kept
within_1_sdev_inclusive(value, global_max, std_sq) ==
    IF IsNaN(std_sq) THEN FALSE
    ELSE LET d == RSub(global_max, value)
         IN  IF d[1] < 0 THEN TRUE ELSE RLe(RMul(d, d), std_sq)

\* value > global_max - std, with std given by its square
within_1_sdev(value, global_max, std_sq) ==
    IF IsNaN(std_sq) THEN FALSE
    ELSE LET d == RSub(global_max, value)
         IN  IF d[1] < 0 THEN TRUE ELSE RLt(RMul(d, d), std_sq)

ExtractMax ==
    /\ pc = "_extract_max"
    /\ LET IsMax(row) == ~IsNaN(row.max)
           DropGains(rows) == [i \in 1..Len(rows) |->
                                  [period |-> rows[i].period, max |-> rows[i].max]]
           local_max == DropGains(SelectSeq(o_function, IsMax))
           std_sq == std_squared([i \in 1..Len(local_max) |-> local_max[i].max])
           filled == fillna([i \in 1..Len(o_function) |-> o_function[i].max], Rat(0, 1))
           at == idxmax(filled)
           global_max == filled[at]
           Within(row) == within_1_sdev(row.max, global_max, std_sq)
           band == SelectSeq(local_max, Within)
       IN  /\ o_function' = [i \in 1..Len(o_function) |->
                                [o_function[i] EXCEPT !.max = filled[i]]]
           /\ max_df' = band
           /\ of_info' = [global_max |-> global_max,
                          period_at_global_max |-> o_function[at].period,
                          std_of_local_max |-> std_sq,
                          n_local_max |-> count_nonzero(filled),
                          number_of_periods |-> config.period.max - config.period.min + 1,
                          nmax_1std |-> Len(band)]
    /\ pc' = "ObjectiveFunction._cleanup"
    /\ UNCHANGED <<config, time_series, per, warnings,
                 mad_buy_signals, mad_sell_signals, request,
                 caller_df, cache, calls, returned>>

OFCleanup ==
    /\ pc = "ObjectiveFunction._cleanup"
    /\ o_function' = [i \in 1..Len(o_function) |->
                         [period |-> o_function[i].period,
                          gains |-> o_function[i].gains]]
    /\ pc' = "done"
    /\ UNCHANGED <<config, time_series, per, max_df, of_info, warnings,
                 mad_buy_signals, mad_sell_signals, request,
                 caller_df, cache, calls, returned>>

(* ------------------------------------------------------ the whole pipeline *)
Next ==
    \/ FrameInit
    \/ BuildMovingAverage
    \/ BuildBuffers
    \/ BuildZone
    \/ BuildPosition
    \/ BuildRecommendation
    \/ BuildSimpleMovingAverage
    \/ BuildMaDifferential
    \/ FrameCleanup
    \/ BuildObjectiveFunction
    \/ BuildMaxima
    \/ ExtractMax
    \/ OFCleanup

Spec == Init /\ [][Next]_vars

(* ---------------- the recommendation scan on any sequence of positions *)
BaseConfig ==
    [period |-> [min |-> 1, max |-> 1],
     buffers |-> [fixed |-> TRUE, buffer |-> 0],
     strategy |-> "long", ema |-> TRUE, sma |-> FALSE, mad |-> MadOff]

Ones(n) == [t \in 1..n |-> 1]

InitRec ==
    /\ pc = "_build_recommendation"
    /\ config = BaseConfig
    /\ per = 1
    /\ \E pos \in SeqsUpTo({POSITIONS[1], POSITIONS[2], POSITIONS[3]}, MaxRows) :
          time_series = [RawFrame(Ones(Len(pos))) EXCEPT !.Pos = (1 :> pos)]
    /\ o_function = None
    /\ max_df = None
    /\ of_info = NoInfo
    /\ warnings = 0
    /\ mad_buy_signals = None
    /\ mad_sell_signals = None
    /\ request = None
    /\ caller_df = None
    /\ cache = None
    /\ calls = None
    /\ returned = None

NextRec == BuildRecommendation

SpecRec == InitRec /\ [][NextRec]_vars

(* ------------------- Frame.__init__ with any setting of the mad section *)
InitMAD ==
    /\ pc = "Frame.__init__"
    /\ \E m \in MadConfigs : config = [BaseConfig EXCEPT !.mad = m]
    /\ time_series \in {RawFrame(x) : x \in SeqsUpTo(1..MaxPrice, MaxRows)}
    /\ per = 0
    /\ o_function = None
    /\ max_df = None
    /\ of_info = NoInfo
    /\ warnings = 0
    /\ mad_buy_signals = None
    /\ mad_sell_signals = None
    /\ request = None
    /\ caller_df = time_series
    /\ cache = None
    /\ calls = None
    /\ returned = None

NextMAD ==
    \/ FrameInit
    \/ BuildMovingAverage
    \/ BuildBuffers
    \/ BuildZone
    \/ BuildPosition
    \/ BuildRecommendation
    \/ BuildMAD
    \/ FrameCleanup

SpecMAD == InitMAD /\ [][NextMAD]_vars

(* -------------- the objective function on any recommendation column *)
\* row 0 of a recommendation column is always the missing value of the shift
RecColumns(n) ==
    {<<TextNaN>> \o r :
        r \in [1..(n - 1) -> {RECOMMENDATIONS[1], RECOMMENDATIONS[2], RECOMMENDATIONS[3]}]}

InitOF ==
    /\ pc = "_build_objective_function"
    /\ config = BaseConfig
    /\ per = 1
    /\ \E x \in SeqsUpTo(1..MaxPrice, MaxRows) :
          \E r \in RecColumns(Len(x)) :
              time_series = [RawFrame(x) EXCEPT !.R = (1 :> r)]
    /\ o_function = None
    /\ max_df = None
    /\ of_info = NoInfo
    /\ warnings = 0
    /\ mad_buy_signals = None
    /\ mad_sell_signals = None
    /\ request = None
    /\ caller_df = None
    /\ cache = None
    /\ calls = None
    /\ returned = None

NextOF ==
    \/ BuildObjectiveFunction
    \/ BuildMaxima
    \/ ExtractMax
    \/ OFCleanup

SpecOF == InitOF /\ [][NextOF]_vars

(* ----------------------------- the maxima on any table of gains *)
GainRanges ==
    {r \in [min : 1..MaxGainRows, max : 1..MaxGainRows] : r.min <= r.max}

InitMax ==
    /\ pc = "_build_maxima"
    /\ \E r \in GainRanges :
          /\ config = [BaseConfig EXCEPT !.period = r]
          /\ per = r.max
          /\ \E g \in [1..(r.max - r.min + 1) -> (0 - MaxLoss)..MaxGain] :
                o_function = [i \in 1..(r.max - r.min + 1) |->
                                 [period |-> r.min + i - 1, gains |-> Rat(g[i], 1)]]
    /\ time_series = RawFrame(Ones(1))
    /\ max_df = None
    /\ of_info = NoInfo
    /\ warnings = 0
    /\ mad_buy_signals = None
    /\ mad_sell_signals = None
    /\ request = None
    /\ caller_df = None
    /\ cache = None
    /\ calls = None
    /\ returned = None

NextMax ==
    \/ BuildMaxima
    \/ ExtractMax
    \/ OFCleanup

SpecMax == InitMax /\ [][NextMax]_vars

(* ============================================================ Downloader *)
\* The table of the Downloader is a sequence of rows in storage order, each
\* with its index value (date, a day number) and the three columns kept by
\* _preprocess; a cell is a rational or NaN.
Cells(max) == {NaN} \cup {Rat(v, 1) : v \in 1..max}

RawRows ==
    [date : 1..MaxDate, adj_close : Cells(MaxPrice),
     spread : Cells(MaxCell), volume : Cells(MaxCell)]

\* DataFrame.sort_index(): the rows by ascending date, rows of one date in
\* their stored order
RECURSIVE sort_index(_)
sort_index(df) ==
    IF Len(df) = 0 THEN <<>>
    ELSE LET first == CHOOSE i \in 1..Len(df) :
                          /\ \A j \in 1..Len(df) : df[i].date <= df[j].date
                          /\ \A j \in 1..(i - 1) : df[j].date > df[i].date
             rest == [k \in 1..(Len(df) - 1) |-> IF k < first THEN df[k] ELSE df[k + 1]]
         IN  <<df[first]>> \o sort_index(rest)

\* .loc[start_date:end_date] on a sorted index: both ends included
loc_slice(df, start_date, end_date) ==
    LET InWindow(r) == start_date <= r.date /\ r.date <= end_date
    IN  SelectSeq(df, InWindow)

SameValues(r, q) ==
    r.adj_close = q.adj_close /\ r.spread = q.spread /\ r.volume = q.volume

\* DataFrame.drop_duplicates(): of the rows holding the same values in all
\* columns the first is kept; the index takes no part in the comparison
RECURSIVE drop_duplicates(_)
drop_duplicates(df) ==
    IF Len(df) = 0 THEN <<>>
    ELSE LET head == drop_duplicates(SubSeq(df, 1, Len(df) - 1))
             last == df[Len(df)]
         IN  IF \E i \in 1..(Len(df) - 1) : SameValues(df[i], last)
             THEN head ELSE Append(head, last)

\* DataFrame.dropna(): the rows without a missing cell
dropna(df) ==
    LET Complete(r) == ~IsNaN(r.adj_close) /\ ~IsNaN(r.spread) /\ ~IsNaN(r.volume)
    IN  SelectSeq(df, Complete)

Requests ==
    [requested : [start_date : 1..MaxDate, end_date : 1..MaxDate],
     actual : {None}]

ApplyDateWindow ==
    /\ pc = "Downloader._apply_date_window"
    /\ IF request.requested.start_date <= request.requested.end_date
       THEN /\ time_series' = loc_slice(sort_index(time_series),
                                        request.requested.start_date,
                                        request.requested.end_date)
            /\ pc' = "Downloader._postprocess"
       ELSE /\ time_series' = time_series
            /\ pc' = "AssertionError"
    /\ UNCHANGED <<config, per, o_function, max_df, of_info, warnings,
                   mad_buy_signals, mad_sell_signals, request,
                 caller_df, cache, calls, returned>>

Postprocess ==
    /\ pc = "Downloader._postprocess"
    /\ time_series' = dropna(drop_duplicates(time_series))
    /\ pc' = "Downloader._update_request"
    /\ UNCHANGED <<config, per, o_function, max_df, of_info, warnings,
                   mad_buy_signals, mad_sell_signals, request,
                 caller_df, cache, calls, returned>>

\* index[0] of an empty table raises IndexError
UpdateRequest ==
    /\ pc = "Downloader._update_request"
    /\ IF Len(time_series) = 0
       THEN /\ request' = request
            /\ pc' = "IndexError"
       ELSE /\ request' = [request EXCEPT !.actual =
                              [start_date |-> time_series[1].date,
                               end_date |-> time_series[Len(time_series)].date]]
            /\ pc' = "Downloader: done"
    /\ UNCHANGED <<config, time_series, per, o_function, max_df, of_info, warnings,
                   mad_buy_signals, mad_sell_signals,
                 caller_df, cache, calls, returned>>

InitDL ==
    /\ pc = "Downloader._apply_date_window"
    /\ config = BaseConfig
    /\ time_series \in SeqsUpTo(RawRows, MaxRawRows)
    /\ request \in Requests
    /\ caller_df = None
    /\ cache = None
    /\ calls = None
    /\ returned = None
    /\ per = 0
    /\ o_function = None
    /\ max_df = None
    /\ of_info = NoInfo
    /\ warnings = 0
    /\ mad_buy_signals = None
    /\ mad_sell_signals = None

NextDL ==
    \/ ApplyDateWindow
    \/ Postprocess
    \/ UpdateRequest

SpecDL == InitDL /\ [][NextDL]_vars

(* --------------------- Frame._cleanup on a series holding any zone columns *)
\* the series reaches _cleanup as the caller's table (no average requested,
\* so no join has replaced it) with a zone column for any set of periods
InitCleanup ==
    /\ pc = "Frame._cleanup"
    /\ \E r \in PeriodRanges :
          /\ config = [BaseConfig EXCEPT !.period = r, !.ema = FALSE]
          /\ per = r.max
    /\ \E x \in SeqsUpTo(1..MaxPrice, MaxRawRows) :
       \E present \in SUBSET (1..MaxPeriod) :
          time_series =
              [RawFrame(x) EXCEPT
                  !.Z = [p \in present |-> [t \in 1..Len(x) |-> ZONES[3]]]]
    /\ o_function = None
    /\ max_df = None
    /\ of_info = NoInfo
    /\ warnings = 0
    /\ mad_buy_signals = None
    /\ mad_sell_signals = None
    /\ request = None
    /\ caller_df = time_series
    /\ cache = None
    /\ calls = None
    /\ returned = None

NextCleanup == FrameCleanup

SpecCleanup == InitCleanup /\ [][NextCleanup]_vars

(* ------------------------------------------ system_utilities: cache(func) *)
\* the values passed to the wrapped function; Unhashable stands for a list
Unhashable == "[]"

ArgTuples == {<<>>, <<"x">>, <<Unhashable>>}

KwargDicts == {<<>>} \cup [{"k"} -> {"x"}]

\* what func hands back: a result, or an exception
Results == {"u", "v"}

Raised == "raise"

TypeError == "TypeError: unhashable type"

\* key = (args, frozenset(kwargs.items()))
key(args, kwargs) == <<args, {<<n, kwargs[n]>> : n \in DOMAIN kwargs}>>

\* hashing the key raises when one of its items is unhashable
hashable(args, kwargs) ==
    /\ \A i \in DOMAIN args : args[i] # Unhashable
    /\ \A n \in DOMAIN kwargs : kwargs[n] # Unhashable

Keys == {key(a, k) : a \in ArgTuples, k \in KwargDicts}

\* the function is invoked and its result stored whatever the cache holds
wrapper_nolookup(args, kwargs) ==
    /\ hashable(args, kwargs)
    /\ calls[key(args, kwargs)] < MaxCalls
    /\ calls' = [calls EXCEPT ![key(args, kwargs)] = @ + 1]
    /\ \E result \in Results :
          /\ cache' = (key(args, kwargs) :> result) @@ cache
          /\ returned' = [key |-> key(args, kwargs), value |-> result]

\* one call wrapper(*args, **kwargs); calls counts the invocations of func
wrapper(args, kwargs) ==
    IF ~hashable(args, kwargs)
    THEN /\ returned' = [key |-> key(args, kwargs), value |-> TypeError]
         /\ UNCHANGED <<cache, calls>>
    ELSE IF key(args, kwargs) \in DOMAIN cache
    THEN /\ returned' = [key |-> key(args, kwargs),
                         value |-> cache[key(args, kwargs)]]
         /\ UNCHANGED <<cache, calls>>
    ELSE /\ calls[key(args, kwargs)] < MaxCalls
         /\ calls' = [calls EXCEPT ![key(args, kwargs)] = @ + 1]
         /\ \E outcome \in Results \cup {Raised} :
               IF outcome = Raised
               THEN /\ cache' = cache
                    /\ returned' = [key |-> key(args, kwargs), value |-> Raised]
               ELSE /\ cache' = (key(args, kwargs) :> outcome) @@ cache
                    /\ returned' = [key |-> key(args, kwargs), value |-> outcome]

Call ==
    /\ pc = "wrapper"
    /\ \E args \in ArgTuples : \E kwargs \in KwargDicts : wrapper(args, kwargs)
    /\ UNCHANGED <<pc, config, time_series, per, o_function, max_df, of_info,
                   warnings, mad_buy_signals, mad_sell_signals, request, caller_df>>

\* wrapper.cache = {} ; no call made yet
InitCache ==
    /\ pc = "wrapper"
    /\ config = BaseConfig
    /\ time_series = None
    /\ per = 0
    /\ o_function = None
    /\ max_df = None
    /\ of_info = NoInfo
    /\ warnings = 0
    /\ mad_buy_signals = None
    /\ mad_sell_signals = None
    /\ request = None
    /\ caller_df = None
    /\ cache = <<>>
    /\ calls = [k \in Keys |-> 0]
    /\ returned = None

NextCache == Call

SpecCache == InitCache /\ [][NextCache]_vars

(* ================================================================ claims *)
Side == POSITIONS[3]
Long == POSITIONS[1]
Short == POSITIONS[2]
Buy == RECOMMENDATIONS[1]
Sell == RECOMMENDATIONS[2]
Hold == RECOMMENDATIONS[3]

\* the Frame has been constructed (the objective function stage has begun)
FrameDone ==
    pc \in {"_build_objective_function",
            "terminate: Failed to build objective function",
            "_build_maxima", "_extract_max", "ObjectiveFunction._cleanup", "done"}

\* the nine-entry transition table of the specification
TransitionTable(prev, curr) ==
    CASE prev = Side /\ curr = Long -> Buy
      [] prev = Side /\ curr = Short -> Sell
      [] prev = Side /\ curr = Side -> Hold
      [] prev = Short /\ curr = Long -> Buy
      [] prev = Short /\ curr = Short -> Hold
      [] prev = Short /\ curr = Side -> Hold
      [] prev = Long /\ curr = Long -> Hold
      [] prev = Long /\ curr = Short -> Sell
      [] prev = Long /\ curr = Side -> Sell

\* C1 as stated: on row 0 of every period the position is Side and the
\* recommendation is Hold.
C1_Row0SideHold ==
    \A p \in DOMAIN time_series.R :
        /\ time_series.Pos[p][1] = Side
        /\ time_series.R[p][1] = Hold

\* C1 amended: on row 0 of every period of the range the position is Side
\* whatever the zone of row 0, and the recommendation of row 0 is the missing
\* value left by the one-row shift (neither Buy nor Sell); the forced Hold
\* sits on row 1 when the series has a second row.
C1_Row0SideNoTrade ==
    /\ \A p \in DOMAIN time_series.Pos : time_series.Pos[p][1] = Side
    /\ \A p \in DOMAIN time_series.R :
          /\ time_series.R[p][1] = TextNaN
          /\ time_series.R[p][1] \notin {Buy, Sell}
          /\ NRows >= 2 => time_series.R[p][2] = Hold
    /\ (FrameDone /\ config.ema) =>
          PeriodRange \subseteq (DOMAIN time_series.Pos \cap DOMAIN time_series.R)

\* C1 witness: a period whose row 0 lies in the High zone has its position
\* and recommendation columns built.
C1_Row0HighZone ==
    \E p \in DOMAIN time_series.R \cap DOMAIN time_series.Z :
        /\ time_series.Z[p][1] = ZONES[1]
        /\ time_series.Pos[p][1] = Side
        /\ NRows >= 2

\* C2: on every row t > 0 whose zone is Mid the position equals the position
\* of row t-1; the position changes only on rows whose zone is High or Low.
C2_ForwardFill ==
    \A p \in DOMAIN time_series.Pos \cap DOMAIN time_series.Z :
        \A t \in 2..NRows :
            /\ time_series.Z[p][t] = ZONES[3] =>
                  time_series.Pos[p][t] = time_series.Pos[p][t - 1]
            /\ time_series.Pos[p][t] # time_series.Pos[p][t - 1] =>
                  time_series.Z[p][t] \in {ZONES[1], ZONES[2]}

\* C2 witness: a Mid row that carries a Long position forward.
C2_MidCarriesLong ==
    \E p \in DOMAIN time_series.Pos \cap DOMAIN time_series.Z :
        \E t \in 2..NRows :
            /\ time_series.Z[p][t] = ZONES[3]
            /\ time_series.Pos[p][t - 1] = Long
            /\ time_series.Pos[p][t] = Long

\* C3: for every sequence of positions over {Long, Short, Side} the scan
\* never reaches the logic error, and the action of every adjacent pair
\* (t-1, t) kept by the column is the one of the nine-entry table.
C3_TableExact ==
    /\ pc # "ValueError"
    /\ \A p \in DOMAIN time_series.R :
          \A t \in 2..(NRows - 1) :
              time_series.R[p][t + 1] =
                  TransitionTable(time_series.Pos[p][t - 1], time_series.Pos[p][t])

\* C3 witness: a scanned sequence that holds Short and yields a Buy and a Sell.
C3_ShortScanned ==
    \E p \in DOMAIN time_series.R :
        /\ \E t \in 1..NRows : time_series.Pos[p][t] = Short
        /\ \E t \in 1..NRows : time_series.R[p][t] = Buy
        /\ \E t \in 1..NRows : time_series.R[p][t] = Sell

\* C4: in the built column, row 1 is Hold, every row t >= 2 holds the table
\* action of the transition (Position[t-2], Position[t-1]), so the
\* transition of the last row is on no row, and a Buy or Sell sits on the
\* row after the one whose close changed the position.
C4_OneDayLag ==
    \A p \in DOMAIN time_series.R :
        /\ Len(time_series.R[p]) = NRows
        /\ NRows >= 2 => time_series.R[p][2] = Hold
        /\ \A t \in 3..NRows :
              time_series.R[p][t] =
                  TransitionTable(time_series.Pos[p][t - 2], time_series.Pos[p][t - 1])
        /\ \A t \in 1..NRows :
              time_series.R[p][t] \in {Buy, Sell} =>
                  /\ t >= 3
                  /\ time_series.Pos[p][t - 1] # time_series.Pos[p][t - 2]

\* C4 witness: the last row turns Long, its Buy is on no row, and an earlier
\* Buy sits on a row whose own position did not change.
C4_LastTransitionDropped ==
    \E p \in DOMAIN time_series.R :
        /\ NRows >= 4
        /\ time_series.Pos[p][NRows] = Long
        /\ time_series.Pos[p][NRows - 1] = Side
        /\ time_series.R[p][NRows] # Buy
        /\ \E t \in 3..NRows :
              /\ time_series.R[p][t] = Buy
              /\ time_series.Pos[p][t] = time_series.Pos[p][t - 1]

(* ------------------------------------------- claims on the objective function *)
Gains == [i \in 1..Len(o_function) |-> o_function[i].gains]

CountOf(column, action) == Cardinality({t \in 1..Len(column) : column[t] = action})

\* the sum of the closes over the rows of a column that hold an action
TotalOf(column, action) ==
    SumSeq([t \in 1..Len(column) |->
               IF column[t] = action THEN time_series.adj_close[t] ELSE 0])

LastClose == time_series.adj_close[NRows]

FirstBuyPrice(column) ==
    time_series.adj_close[CHOOSE t \in 1..Len(column) :
                             /\ column[t] = Buy
                             /\ \A u \in 1..(t - 1) : column[u] # Buy]

OFTerminated == pc = "terminate: Failed to build objective function"

\* C5: whenever the first (last) period has a gain >= the gain of its single
\* neighbour it is marked as a local maximum.
C5_BoundaryMaxima ==
    (pc = "_extract_max" /\ Len(o_function) >= 2) =>
        /\ RLe(Gains[2], Gains[1]) => ~IsNaN(o_function[1].max)
        /\ RLe(Gains[Len(o_function) - 1], Gains[Len(o_function)]) =>
              ~IsNaN(o_function[Len(o_function)].max)

\* C5 failing input: the gains [5, 5, 3] mark index 1 only.
C5_Gains553 ==
    /\ pc = "_extract_max"
    /\ Gains = <<Rat(5, 1), Rat(5, 1), Rat(3, 1)>>
    /\ IsNaN(o_function[1].max)
    /\ ~IsNaN(o_function[2].max)
    /\ IsNaN(o_function[3].max)

\* C6: when two or more periods attain the largest gain, the reported
\* global-maximum period result contains every one of them.
C6_TiesReported ==
    pc = "done" =>
        LET top == {i \in 1..Len(o_function) :
                       \A j \in 1..Len(o_function) : RLe(Gains[j], Gains[i])}
        IN  Cardinality(top) >= 2 =>
                \A i \in top : o_function[i].period \in {of_info.period_at_global_max}

\* C6 failing input: two local maxima tie at the global maximum and only the
\* first is reported.
C6_TwoTiedLocalMaxima ==
    /\ pc = "ObjectiveFunction._cleanup"
    /\ \E i, j \in 1..Len(o_function) :
          /\ i < j
          /\ o_function[i].max[1] > 0
          /\ REq(o_function[i].max, of_info.global_max)
          /\ REq(o_function[j].max, of_info.global_max)
          /\ REq(o_function[j].max, o_function[j].gains)
          /\ of_info.period_at_global_max = o_function[i].period

\* C7: for a column with exactly one more Buy than Sell rows (one Buy and
\* no Sell included) the run does not terminate and the gain counts the
\* final close as a sale.
C7_MarkToMarket ==
    /\ OFTerminated =>
          ~(/\ HasColumn(time_series, "R", per)
            /\ CountOf(time_series.R[per], Buy) = CountOf(time_series.R[per], Sell) + 1)
    /\ pc = "_build_maxima" =>
          \A i \in 1..Len(o_function) :
              LET column == time_series.R[o_function[i].period]
              IN  CountOf(column, Buy) = CountOf(column, Sell) + 1 =>
                      REq(o_function[i].gains,
                          Rat(TotalOf(column, Sell) + LastClose - TotalOf(column, Buy),
                              FirstBuyPrice(column)))

\* C7 failing input: the run terminated on a column of one Buy and no Sell.
C7_OneBuyNoSell ==
    /\ OFTerminated
    /\ HasColumn(time_series, "R", per)
    /\ CountOf(time_series.R[per], Buy) = 1
    /\ CountOf(time_series.R[per], Sell) = 0

C9_NoBuyIsFatal ==
    (/\ FrameDone
     /\ \E p \in PeriodRange :
           HasColumn(time_series, "R", p) /\ CountOf(time_series.R[p], Buy) = 0) =>
        /\ pc \in {"_build_objective_function",
                   "terminate: Failed to build objective function"}
        /\ o_function = None
        /\ max_df = None
        /\ of_info = NoInfo

\* C9 witness: the run terminated on a period without Buy although another
\* period of the range has Buy and Sell rows that would yield a gain.
C9_OnePeriodWithoutBuy ==
    /\ OFTerminated
    /\ HasColumn(time_series, "R", per)
    /\ CountOf(time_series.R[per], Buy) = 0
    /\ \E p \in PeriodRange :
          /\ CountOf(time_series.R[p], Buy) >= 1
          /\ CountOf(time_series.R[p], Sell) >= 1
    /\ o_function = None

\* C10: every gain of the table equals (sell_total - buy_total) /
\* first_buy_price, the totals being the sums of the closes over the Sell and
\* Buy rows after the final close has been added to the shorter leg, and
\* first_buy_price the close of the earliest Buy row.
C10_GainFormula ==
    o_function # None =>
        \A i \in 1..Len(o_function) :
            LET column == time_series.R[o_function[i].period]
                nB == CountOf(column, Buy)
                nS == CountOf(column, Sell)
                buy_total == TotalOf(column, Buy) + (IF nS = nB + 1 THEN LastClose ELSE 0)
                sell_total == TotalOf(column, Sell) + (IF nB = nS + 1 THEN LastClose ELSE 0)
            IN  (nB >= 1 /\ nB <= nS + 1 /\ nS <= nB + 1) =>
                    o_function[i].gains[1] * FirstBuyPrice(column) =
                        (sell_total - buy_total) * o_function[i].gains[2]

\* C10 witness: a gain was produced for a column that opens with a Buy, holds
\* a Sell and ends with an open long position, the first Buy price differing
\* from a later one.
C10_ReconciledGain ==
    /\ pc = "_build_maxima"
    /\ LET column == time_series.R[1]
       IN  /\ CountOf(column, Sell) >= 1
           /\ CountOf(column, Buy) = CountOf(column, Sell) + 1
           /\ \A t \in 1..NRows :
                 column[t] = Sell => \E u \in 1..(t - 1) : column[u] = Buy
           /\ \E t \in 1..NRows :
                 column[t] = Buy /\ time_series.adj_close[t] # FirstBuyPrice(column)
           /\ o_function[1].gains[1] # 0

(* ------------------------------------------------ claims C11 to C20 *)
\* the rows that _build_maxima marks as local maxima
LocalMaxima ==
    LET marked == _build_maxima(o_function)
    IN  {i \in 1..Len(o_function) : ~IsNaN(marked[i].max)}

\* the sample variance of the gains of the rows of a set, from their mean
VarianceOver(rows) ==
    LET n == Cardinality(rows)
        mean == RMul(RSumSeq([i \in 1..Len(o_function) |->
                                IF i \in rows THEN Gains[i] ELSE Rat(0, 1)]),
                     Rat(1, n))
        sq == [i \in 1..Len(o_function) |->
                  IF i \in rows
                  THEN RMul(RSub(Gains[i], mean), RSub(Gains[i], mean))
                  ELSE Rat(0, 1)]
    IN  RMul(RSumSeq(sq), Rat(1, n - 1))

\* gain > global_max - stdev, stdev being the root of variance
StrictlyAbove(gain, global_max, variance) ==
    LET d == RSub(global_max, gain)
    IN  d[1] * d[2] < 0 \/ RLt(RMul(d, d), variance)

\* C11: once the maxima are extracted, the stability band holds exactly the
\* local maxima whose gain is strictly greater than global_max minus the
\* standard deviation of the gains of all local maxima (none when fewer than
\* two local maxima leave the deviation undefined), each once with its gain,
\* and number_of_max_within_1_sdev is the size of that set.
C11_StabilityBand ==
    pc \in {"ObjectiveFunction._cleanup", "done"} =>
        LET local == LocalMaxima
            variance == VarianceOver(local)
            expected ==
                IF Cardinality(local) < 2 THEN {}
                ELSE {i \in local :
                         StrictlyAbove(Gains[i], of_info.global_max, variance)}
        IN  /\ {max_df[k].period : k \in 1..Len(max_df)} =
                   {o_function[i].period : i \in expected}
            /\ Len(max_df) = Cardinality(expected)
            /\ \A k \in 1..Len(max_df) : \A i \in expected :
                   max_df[k].period = o_function[i].period =>
                       REq(max_df[k].max, Gains[i])
            /\ of_info.nmax_1std = Cardinality(expected)

\* C11 witness: of several local maxima of different gains some, not all,
\* are in the band.
C11_BandKeepsSome ==
    /\ pc = "ObjectiveFunction._cleanup"
    /\ Cardinality(LocalMaxima) >= 2
    /\ of_info.nmax_1std >= 1
    /\ of_info.nmax_1std < Cardinality(LocalMaxima)

\* no derived column has been joined to the series
NoDerivedColumns == time_series = RawFrame(time_series.adj_close)

\* C12: with a strategy other than long the construction of the Frame ends
\* in the failed assertion of Frame.__init__: the loop over the periods is
\* never entered, the series holds no moving average, buffer, zone, position
\* or recommendation column, and nothing downstream is built.
C12_StrategyAsserted ==
    config.strategy # "long" =>
        /\ pc \in {"Frame.__init__", "AssertionError"}
        /\ NoDerivedColumns
        /\ per = 0
        /\ o_function = None
        /\ mad_buy_signals = None

\* C12 witness: the assertion failed for the short strategy on a series of
\* several rows.
C12_ShortStrategyAborted ==
    /\ pc = "AssertionError"
    /\ config.strategy = "short"
    /\ NRows >= 2
    /\ NoDerivedColumns

C14_WindowOrderRejected ==
    (config.mad.compute /\ config.mad.short_period >= config.mad.long_period) =>
        /\ mad_buy_signals = None
        /\ mad_sell_signals = None
        /\ pc \notin {"Frame._cleanup", "_build_objective_function"}

\* C14 failing input: with the short window longer than the long one both
\* tables were built, the buy table holding a row, and construction went on.
C14_ShortAboveLongSignals ==
    /\ pc = "Frame._cleanup"
    /\ config.mad.compute
    /\ config.mad.short_period > config.mad.long_period
    /\ mad_buy_signals # None
    /\ mad_sell_signals # None
    /\ Len(mad_buy_signals.rows) >= 1

\* C15: when the range holds a single period and its column has a Buy, the
\* extraction reports that period as a local maximum: number_of_local_max
\* is 1 and global_max is the gain of the period.
C15_SinglePeriodIsMaximum ==
    (/\ pc \in {"ObjectiveFunction._cleanup", "done"}
     /\ config.period.min = config.period.max
     /\ CountOf(time_series.R[config.period.min], Buy) >= 1) =>
        /\ of_info.n_local_max = 1
        /\ REq(of_info.global_max, Gains[1])
        /\ of_info.period_at_global_max = config.period.min

\* C15 failing input: a single period with a positive gain is not marked:
\* no local maximum is counted and global_max is 0.
C15_SinglePeriodUnmarked ==
    /\ pc = "ObjectiveFunction._cleanup"
    /\ config.period.min = config.period.max
    /\ CountOf(time_series.R[config.period.min], Buy) >= 1
    /\ Gains[1][1] > 0
    /\ of_info.n_local_max = 0
    /\ of_info.global_max[1] = 0
    /\ Len(max_df) = 0

\* every row of the column of a period is there
FullColumn(col, p) ==
    /\ HasColumn(time_series, col, p)
    /\ Len(time_series[col][p]) = NRows

\* C16: once the Frame is constructed its series holds no zone column of any
\* period of the range, while every column built for the requested moving
\* averages is still there, whole, for every period: the exponential
\* average, its two buffers, the position and the recommendation, and the
\* simple average with the differential.
C16_ZoneColumnsDropped ==
    FrameDone =>
        \A p \in PeriodRange :
            /\ ~HasColumn(time_series, "Z", p)
            /\ config.ema =>
                  /\ FullColumn("EMA", p)
                  /\ FullColumn("EMAplus", p)
                  /\ FullColumn("EMAminus", p)
                  /\ FullColumn("Pos", p)
                  /\ FullColumn("R", p)
            /\ (config.ema /\ config.sma) =>
                  /\ FullColumn("SMA", p)
                  /\ FullColumn("DIFF", p)

\* C16 witness: a Frame over several periods and both moving averages has
\* been cleaned up.
C16_SeveralPeriodsCleaned ==
    /\ pc = "_build_objective_function"
    /\ config.period.min < config.period.max
    /\ config.ema
    /\ config.sma
    /\ NRows >= 2
    /\ time_series.Z = NoColumns
    /\ warnings = 0

\* the Downloader has post-processed its table
Postprocessed == pc \in {"Downloader._update_request", "Downloader: done", "IndexError"}

\* C17: for every raw table the post-processed series has strictly
\* increasing dates (hence no date twice) and no missing value in adj_close,
\* spread or volume.
C17_SeriesInvariant ==
    Postprocessed =>
        /\ \A i \in 1..(Len(time_series) - 1) :
               time_series[i].date < time_series[i + 1].date
        /\ \A i \in 1..Len(time_series) :
               /\ ~IsNaN(time_series[i].adj_close)
               /\ ~IsNaN(time_series[i].spread)
               /\ ~IsNaN(time_series[i].volume)

\* C17 failing input: two rows of the raw table share a date and differ in
\* their values, and both are handed on.
C17_RepeatedDateKept ==
    /\ pc = "Downloader: done"
    /\ \E i \in 1..(Len(time_series) - 1) :
          /\ time_series[i].date = time_series[i + 1].date
          /\ ~SameValues(time_series[i], time_series[i + 1])

\* the left fold of the specification over a column of zones
RECURSIVE PositionFold(_)
PositionFold(zones) ==
    IF Len(zones) = 1 THEN <<Side>>
    ELSE LET carried == PositionFold(SubSeq(zones, 1, Len(zones) - 1))
             zone == zones[Len(zones)]
         IN  Append(carried, IF zone = "High" THEN Long
                             ELSE IF zone = "Low" THEN Side
                             ELSE carried[Len(carried)])

\* C18: under the long strategy every position column is the left fold of
\* its zone column (row 0 Side; then Long on High, Side on Low, the carried
\* position on Mid), has one value per row, and holds only Long and Side.
C18_PositionIsFold ==
    config.strategy = "long" =>
        \A p \in DOMAIN time_series.Pos :
            /\ Len(time_series.Pos[p]) = NRows
            /\ \A t \in 1..NRows : time_series.Pos[p][t] \in {Long, Side}
            /\ HasColumn(time_series, "Z", p) =>
                  time_series.Pos[p] = PositionFold(time_series.Z[p])

\* C18 witness: a column that goes Long on a High row, back to Side on a
\* Low row and carries Side over a later Mid row.
C18_LongThenSideCarried ==
    \E p \in DOMAIN time_series.Pos \cap DOMAIN time_series.Z :
        \E t1, t2, t3 \in 2..NRows :
            /\ t1 < t2 /\ t2 < t3
            /\ time_series.Z[p][t1] = "High" /\ time_series.Pos[p][t1] = Long
            /\ time_series.Z[p][t2] = "Low" /\ time_series.Pos[p][t2] = Side
            /\ time_series.Z[p][t3] = "Mid" /\ time_series.Pos[p][t3] = Side

\* the Buy and Sell rows of a column, in date order
Trades(column) ==
    LET IsTrade(a) == a = Buy \/ a = Sell
    IN  SelectSeq(column, IsTrade)

\* C19: under the long strategy the Buy and Sell rows of every
\* recommendation column alternate in date order starting with a Buy, so
\* the Buy rows outnumber the Sell rows by 0 or 1, and _sum_tx never adds the
\* final close to the buys.
C19_BuySellAlternate ==
    config.strategy = "long" =>
        \A p \in DOMAIN time_series.R :
            LET trades == Trades(time_series.R[p])
                nB == CountOf(time_series.R[p], Buy)
                nS == CountOf(time_series.R[p], Sell)
            IN  /\ \A k \in 1..Len(trades) :
                       trades[k] = IF k % 2 = 1 THEN Buy ELSE Sell
                /\ nB - nS \in {0, 1}
                /\ nB + 1 # nS
                /\ (pc = "_build_maxima" /\ p \in PeriodRange) =>
                       _sum_tx(time_series, time_series.R[p])[1] =
                           TotalOf(time_series.R[p], Buy)

\* C19 witness: a column with a Buy, a Sell and a second Buy was given a
\* gain.
C19_BuySellBuy ==
    /\ pc = "_build_maxima"
    /\ \E p \in PeriodRange :
          /\ Len(Trades(time_series.R[p])) >= 3
          /\ CountOf(time_series.R[p], Buy) = CountOf(time_series.R[p], Sell) + 1

\* close >= (1 + buffer) average, and close <= (1 - buffer) average, for a
\* close c, an average <<n, d>> and the buffer config.buffers.buffer / BufferDen
AtOrAboveUpper(c, avg) ==
    c * BufferDen * avg[2] >= (BufferDen + config.buffers.buffer) * avg[1]

AtOrBelowLower(c, avg) ==
    c * BufferDen * avg[2] <= (BufferDen - config.buffers.buffer) * avg[1]

\* C20: every row of a zone column is High if the close is at or above the
\* upper band, otherwise Low if it is at or below the lower band, otherwise
\* Mid; a row on which both hold is High.
C20_ZoneClassification ==
    \A p \in DOMAIN time_series.Z :
        /\ Len(time_series.Z[p]) = NRows
        /\ \A t \in 1..NRows :
              LET c == time_series.adj_close[t]
                  avg == time_series.EMA[p][t]
              IN  /\ time_series.Z[p][t] =
                        IF AtOrAboveUpper(c, avg) THEN "High"
                        ELSE IF AtOrBelowLower(c, avg) THEN "Low"
                        ELSE "Mid"
                  /\ (AtOrAboveUpper(c, avg) /\ AtOrBelowLower(c, avg)) =>
                        time_series.Z[p][t] = "High"

\* C20 witness: with buffer 0 a row after row 0 closes exactly on its
\* moving average and is High, and another row of the column is Low.
C20_CloseOnAverage ==
    /\ config.buffers.buffer = 0
    /\ \E p \in DOMAIN time_series.Z :
          /\ p >= 2
          /\ \E t \in 2..NRows :
                /\ AtOrAboveUpper(time_series.adj_close[t], time_series.EMA[p][t])
                /\ AtOrBelowLower(time_series.adj_close[t], time_series.EMA[p][t])
                /\ time_series.Z[p][t] = "High"
          /\ \E t \in 2..NRows : time_series.Z[p][t] = "Low"

(* ------------------------------------------------ claims C21 to C30 *)
\* C21: in the max column built from the gains, a period with two
\* neighbours is marked, with its gain, if and only if its gain is at least
\* the gain of both neighbours; equal gains count, so every interior period
\* of a plateau is marked.
C21_InteriorMaxima ==
    pc = "_extract_max" =>
        \A i \in 2..(Len(o_function) - 1) :
            /\ ~IsNaN(o_function[i].max) <=>
                  (RLe(Gains[i - 1], Gains[i]) /\ RLe(Gains[i + 1], Gains[i]))
            /\ ~IsNaN(o_function[i].max) => o_function[i].max = Gains[i]

\* C21 witness: three interior periods of equal gain between two lower
\* ones are all marked.
C21_PlateauMarked ==
    /\ pc = "_extract_max"
    /\ Len(o_function) = 5
    /\ REq(Gains[2], Gains[3]) /\ REq(Gains[3], Gains[4])
    /\ RLt(Gains[1], Gains[2]) /\ RLt(Gains[5], Gains[4])
    /\ \A i \in 2..4 : ~IsNaN(o_function[i].max)

\* the rows holding the largest gain of the table
LargestGainRows ==
    {i \in 1..Len(o_function) : \A j \in 1..Len(o_function) : RLe(Gains[j], Gains[i])}

Extracted == pc \in {"ObjectiveFunction._cleanup", "done"}

\* C22: the reported global_max is the largest gain over all periods of the
\* range and the reported period is one that attains it.
C22_GlobalMaxIsLargestGain ==
    Extracted =>
        /\ \A i \in LargestGainRows : REq(of_info.global_max, Gains[i])
        /\ \E i \in LargestGainRows :
               of_info.period_at_global_max = o_function[i].period

\* C22 failing input: the gains increase with the period, the largest one is
\* at the last period, and 0 is reported at the first period.
C22_MonotoneGains ==
    /\ pc = "ObjectiveFunction._cleanup"
    /\ Len(o_function) >= 3
    /\ \A i \in 1..(Len(o_function) - 1) : RLt(Gains[i], Gains[i + 1])
    /\ Gains[Len(o_function)][1] > 0
    /\ of_info.global_max[1] = 0
    /\ of_info.period_at_global_max = o_function[1].period

\* C23: number_of_local_max is the number of periods marked as local
\* maxima, whatever their gains.
C23_CountsEveryLocalMaximum ==
    Extracted => of_info.n_local_max = Cardinality(LocalMaxima)

\* C23 failing input: the only local maximum has the gain 0 and is not
\* counted.
C23_ZeroGainMaximum ==
    /\ pc = "ObjectiveFunction._cleanup"
    /\ \E i \in LocalMaxima : Gains[i][1] = 0
    /\ Cardinality(LocalMaxima) = 1
    /\ of_info.n_local_max = 0

\* C24: whenever a local maximum exists the stability band holds a row with
\* the global maximum, so number_of_max_within_1_sdev is at least 1.
C24_BandHoldsGlobalMax ==
    (Extracted /\ LocalMaxima # {}) =>
        /\ of_info.nmax_1std >= 1
        /\ \E k \in 1..Len(max_df) : REq(max_df[k].max, of_info.global_max)

\* C24 failing input: exactly one local maximum, of positive gain, and an
\* empty band.
C24_SingleMaximumEmptyBand ==
    /\ pc = "ObjectiveFunction._cleanup"
    /\ Cardinality(LocalMaxima) = 1
    /\ \E i \in LocalMaxima : Gains[i][1] > 0 /\ REq(Gains[i], of_info.global_max)
    /\ IsNaN(of_info.std_of_local_max)
    /\ of_info.nmax_1std = 0
    /\ Len(max_df) = 0

\* C25: with sma requested and ema not, construction completes without
\* error, with the column SMA_p of every period and no differential column;
\* with both requested the differential column of every period is
\* EMA_p - SMA_p.
C25_DifferentialOnlyWithBoth ==
    /\ (config.sma /\ ~config.ema) =>
          /\ pc # "KeyError"
          /\ FrameDone =>
                /\ \A p \in PeriodRange : FullColumn("SMA", p)
                /\ time_series.DIFF = NoColumns
    /\ (config.sma /\ config.ema /\ FrameDone) =>
          \A p \in PeriodRange :
              /\ FullColumn("DIFF", p)
              /\ \A t \in 1..NRows :
                    REq(time_series.DIFF[p][t],
                        RSub(time_series.EMA[p][t], time_series.SMA[p][t]))

\* C25 failing input: with sma only, the run ended in the KeyError of the
\* differential of the first of several periods.
C25_SmaOnlyKeyError ==
    /\ pc = "KeyError"
    /\ config.sma /\ ~config.ema
    /\ config.strategy = "long"
    /\ config.buffers.fixed
    /\ config.period.min < config.period.max
    /\ per = config.period.min
    /\ HasColumn(time_series, "SMA", per)
    /\ time_series.DIFF = NoColumns

\* the sum of the w closes ending at row t
WindowSum(t, w) == SumSeq(SubSeq(time_series.adj_close, t - w + 1, t))

\* the short average of row t exceeds its long average, both being defined
ShortAboveLong(t) ==
    LET sw == config.mad.short_period
        lw == config.mad.long_period
    IN  /\ t >= sw
        /\ t >= lw
        /\ WindowSum(t, sw) * lw > WindowSum(t, lw) * sw

\* the row labels of a table, in the order of the table
RowsOf(table) == [k \in 1..Len(table.rows) |-> table.rows[k].row]

MADBuilt == config.mad.compute /\ pc \in {"Frame._cleanup", "_build_objective_function"}

\* C26: the signal of a row is 1 exactly when the short average exceeds the
\* long one; the buy table is exactly the rows with signal 1 whose previous
\* row has signal 0, the sell table exactly the rows with signal 0 whose
\* previous row has signal 1, in row order, and row 0 is in neither.
C26_CrossoverTables ==
    MADBuilt =>
        LET buys == RowsOf(mad_buy_signals)
            sells == RowsOf(mad_sell_signals)
            Increasing(rows) == \A k \in 1..(Len(rows) - 1) : rows[k] < rows[k + 1]
        IN  /\ \A k \in 1..Len(buys) :
                  mad_buy_signals.rows[k].MAD_Signal = 1 /\ ShortAboveLong(buys[k])
            /\ \A k \in 1..Len(sells) :
                  mad_sell_signals.rows[k].MAD_Signal = 0 /\ ~ShortAboveLong(sells[k])
            /\ {buys[k] : k \in 1..Len(buys)} =
                  {t \in 2..NRows : ShortAboveLong(t) /\ ~ShortAboveLong(t - 1)}
            /\ {sells[k] : k \in 1..Len(sells)} =
                  {t \in 2..NRows : ~ShortAboveLong(t) /\ ShortAboveLong(t - 1)}
            /\ Increasing(buys) /\ Increasing(sells)

\* C26 witness: a buy on the first row where both averages are defined and
\* the short one is above, a sell later, and the short average already above
\* the close history on a row where the long average is not yet defined.
C26_BuyThenSell ==
    /\ MADBuilt
    /\ config.mad.short_period < config.mad.long_period
    /\ Len(mad_buy_signals.rows) >= 1
    /\ Len(mad_sell_signals.rows) >= 1
    /\ mad_buy_signals.rows[1].row < mad_sell_signals.rows[1].row
    /\ mad_buy_signals.rows[1].row = config.mad.long_period + 1
    /\ IsNaN(_build_MAD(time_series.adj_close, config.mad.short_period,
                        config.mad.long_period)[2].LONG_MAD)

\* the series built from the same closes, buffer and strategy by the range
\* [p, p] with the exponential average
SinglePeriod(p) ==
    LET raw == RawFrame(time_series.adj_close)
        averaged == join(raw, "EMA", p, _build_moving_average(raw, "exponential", p))
        buffered ==
            join(join(averaged, "EMAplus", p,
                      _build_buffers_plus(averaged, p, config.buffers.buffer)),
                 "EMAminus", p,
                 _build_buffers_minus(averaged, p, config.buffers.buffer))
        zoned == join(buffered, "Z", p, _build_zone(buffered, p))
        positioned == join(zoned, "Pos", p, _build_position(zoned, p, config.strategy))
    IN  join(positioned, "R", p, _build_recommendation(positioned, p))

\* the objective function table has been built
OFBuilt == pc \in {"_build_maxima", "_extract_max", "ObjectiveFunction._cleanup", "done"}

\* _build_objective_function has just run: the table is built or the run is
\* terminated
OFRan == pc \in {"_build_maxima", "terminate: Failed to build objective function"}

\* C27 as stated: the position and recommendation columns and the gain of
\* every period of the range equal those of the range [p, p]; in particular
\* a period whose own range yields a gain has that gain in every range.
C27_SameInEveryRange ==
    (OFRan /\ config.ema) =>
        \A p \in PeriodRange :
            LET single == SinglePeriod(p)
            IN  /\ time_series.Pos[p] = single.Pos[p]
                /\ time_series.R[p] = single.R[p]
                /\ ~of_row_raises(single, p) =>
                      /\ OFBuilt
                      /\ o_function[p - config.period.min + 1].period = p
                      /\ o_function[p - config.period.min + 1].gains =
                            of_row(single, p).gains

\* C27 amended: the columns of every period equal those of the range [p, p];
\* when the table is built every row holds the gain of the range [p, p], and
\* when the run is terminated some period of the range yields no gain on its
\* own either.
C27_SameWhenBuilt ==
    (OFRan /\ config.ema) =>
        /\ \A p \in PeriodRange :
              LET single == SinglePeriod(p)
              IN  /\ time_series.Pos[p] = single.Pos[p]
                  /\ time_series.R[p] = single.R[p]
                  /\ OFBuilt =>
                        /\ ~of_row_raises(single, p)
                        /\ o_function[p - config.period.min + 1].period = p
                        /\ o_function[p - config.period.min + 1].gains =
                              of_row(single, p).gains
        /\ OFTerminated => \E q \in PeriodRange : of_row_raises(SinglePeriod(q), q)

\* C27 witness: a table built over two periods whose averages differ, each
\* row holding a gain.
C27_TwoPeriodsBuilt ==
    /\ OFBuilt
    /\ config.period.min < config.period.max
    /\ time_series.EMA[config.period.min] # time_series.EMA[config.period.max]
    /\ \A p \in PeriodRange : CountOf(time_series.R[p], Sell) >= 1
    /\ Len(o_function) = config.period.max - config.period.min + 1

\* C28: cleanup never aborts: when no zone column of the range exists it
\* warns once, leaves the series unchanged and construction completes; when
\* some exist exactly those are dropped, every other column being kept, and
\* no warning is emitted.
C28_CleanupNeverAborts ==
    [][pc = "Frame._cleanup" =>
          /\ pc' = "_build_objective_function"
          /\ IF PeriodRange \cap DOMAIN time_series.Z = {}
             THEN /\ time_series' = time_series
                  /\ warnings' = warnings + 1
             ELSE /\ DOMAIN time_series'.Z = (DOMAIN time_series.Z) \ PeriodRange
                  /\ \A p \in DOMAIN time_series'.Z :
                        time_series'.Z[p] = time_series.Z[p]
                  /\ \A col \in (DOMAIN time_series) \ {"Z"} :
                        time_series'[col] = time_series[col]
                  /\ warnings' = warnings]_vars

\* C28 witness: cleanup has warned and completed on a series whose only zone
\* column lies outside the range; that column is still there.
C28_WarnedAndCompleted ==
    /\ pc = "_build_objective_function"
    /\ warnings = 1
    /\ DOMAIN time_series.Z # {}
    /\ PeriodRange \cap DOMAIN time_series.Z = {}
    /\ config.period.min < config.period.max

\* C29: construction only extends the series: at every step the closes, and
\* so the rows and their order, are those of the caller's table, and the
\* caller's table is still the raw table it was handed over as.
C29_OnlyExtends ==
    /\ time_series.adj_close = caller_df.adj_close
    /\ caller_df = RawFrame(caller_df.adj_close)
    /\ FrameDone => \A col \in (DOMAIN time_series) \ {"adj_close"} :
                        \A p \in DOMAIN time_series[col] :
                            Len(time_series[col][p]) = Len(caller_df.adj_close)

\* C29 witness: a constructed series with the columns of several periods.
C29_ExtendedSeries ==
    /\ FrameDone
    /\ config.ema /\ config.sma
    /\ config.period.min < config.period.max
    /\ NRows >= 3
    /\ \A p \in PeriodRange : FullColumn("R", p) /\ FullColumn("DIFF", p)
    /\ caller_df = RawFrame(time_series.adj_close)

\* the steps of a call: entries are kept, only the entry of the called key
\* can appear, a hit returns the entry and a miss that returns stores it
CacheStep ==
    /\ \A k \in DOMAIN cache :
          /\ k \in DOMAIN cache'
          /\ cache'[k] = cache[k]
          /\ calls'[k] = calls[k]
    /\ \A k \in Keys \ {returned'.key} :
          /\ k \in DOMAIN cache' <=> k \in DOMAIN cache
          /\ calls'[k] = calls[k]
    /\ returned'.key \in DOMAIN cache => returned'.value = cache[returned'.key]
    /\ (returned'.key \notin DOMAIN cache /\ returned'.value \in Results) =>
          /\ returned'.key \in DOMAIN cache'
          /\ cache'[returned'.key] = returned'.value

\* C30 as stated: func is invoked at most once per key, a later call returns
\* the stored value and no call changes the entry of another key.
C30_InvokedOncePerKey ==
    /\ [](pc = "wrapper" => \A k \in Keys : calls[k] <= 1)
    /\ [][pc = "wrapper" => CacheStep]_vars

\* C30 amended: func is never invoked for a key that holds an entry, so at
\* most once per key after a call that returned; a later call returns the
\* stored value and no call changes the entry of another key.  A key without
\* entry (func raised) has func invoked again by the next call.
C30_InvokedOncePerStoredKey ==
    /\ [](pc = "wrapper" => \A k \in DOMAIN cache : calls[k] >= 1)
    /\ [][pc = "wrapper" => CacheStep]_vars

\* C30 witness: func raised on the first call of a key and was invoked again
\* by the second, which stored its result; the last call, of another key,
\* returned the entry of that key.
C30_RaisedThenStored ==
    /\ pc = "wrapper"
    /\ returned # None
    /\ returned.key \in DOMAIN cache
    /\ returned.value = cache[returned.key]
    /\ calls[returned.key] = 1
    /\ \E k \in DOMAIN cache :
          /\ k # returned.key
          /\ calls[k] = 2
          /\ cache[k] # cache[returned.key]

====
